---- MODULE Spec2Model ----
(***************************************************************************)
(* Campus event planner backend: the event store, the registration ledger  *)
(* and the gin handlers that read and write them.                           *)
(*                                                                          *)
(* Spec      one client, every handler runs from start to end before the    *)
(*           next request (requests "with nothing in between").             *)
(* SpecConcEvents, SpecConcLedger: request workers in parallel; a handler   *)
(*           is split at its store statements (database/sql calls), which   *)
(*           interleave freely.  The handlers of table events and those of  *)
(*           table registrations touch disjoint tables and are interleaved  *)
(*           in one specification each.                                     *)
(*                                                                          *)
(* Abstractions: Name stands for the required text fields of an event      *)
(* (Name, Description, Location, DateTime); the optional metadata columns   *)
(* are written by the same statements as Name and are not modelled apart.   *)
(* The store never fails on its own (no SQLITE_BUSY, no I/O error).         *)
(***************************************************************************)
EXTENDS Integers, Sequences, FiniteSets, Bags, TLC

\* ---------------------------------------------------------------- bounds
\* cap on the AUTOINCREMENT counter of table events
MaxEvents == 2
\* SpecToken: the hours the clock runs for
MaxClock == 3
\* SpecAuth: cap on the AUTOINCREMENT counter of table events
MaxGateEvents == 1

\* request inputs
Users == {1, 2}
Procs == {1, 2}
Names == {"a"}
TicketInputs == {0 - 1, 0, 1, 10}

\* ------------------------------------------------------- HTTP status codes
StatusOK == 200
StatusCreated == 201
StatusBadRequest == 400
StatusUnauthorized == 401
StatusNotFound == 404
StatusConflict == 409
StatusInternalServerError == 500
StatusBadGateway == 502

VARIABLES
    events,       \* table events: id -> [Name, UserID, TicketsAvailable]
    lastEventID,  \* sqlite_sequence of events (AUTOINCREMENT)
    regs,         \* table registrations: bag of <<event_id, user_id>> rows
    resp,         \* Spec: the latest HTTP response (status, message)
    proc,         \* interleaved workers: position, request and locals of each
    users,        \* table users: id -> [Email, Password (the hash), Role]
    lastUserID,   \* sqlite_sequence of users (AUTOINCREMENT)
    token,        \* SpecToken: the token string GenerateToken returned
    clock,        \* time.Now(), in hours
    verified      \* SpecToken: what VerifyToken returned for token

authVars == <<users, lastUserID, token, clock, verified>>
vars == <<events, lastEventID, regs, resp, proc, authVars>>

\* ------------------------------------------------------------ URL params
\* context.Param("id") is text; strconv.ParseInt turns it into an int64.
Digits == <<"1", "2", "3", "4">>
IdParams == {Digits[i] : i \in 1..MaxEvents} \cup {"abc"}

ParseInt(s) ==
    IF \E i \in DOMAIN Digits : Digits[i] = s
    THEN [ok |-> TRUE, val |-> CHOOSE i \in DOMAIN Digits : Digits[i] = s]
    ELSE [ok |-> FALSE, val |-> 0]

\* -------------------------------------------------------------- payloads
\* A request body after JSON decoding. wf = FALSE is a body that is not
\* JSON of the expected shape.  A missing key decodes to the zero value.
\* Inputs: one body that is not JSON, one that lacks a required text field,
\* and every combination of payload UserID and ticket count.
Malformed == [wf |-> FALSE, Name |-> "", UserID |-> 0, TicketsAvailable |-> 0]
MissingName == [wf |-> TRUE, Name |-> "", UserID |-> 0, TicketsAvailable |-> 1]
EventPayloads ==
    {Malformed, MissingName} \cup
    [wf : {TRUE}, Name : Names, UserID : Users, TicketsAvailable : TicketInputs]
TicketPayloads ==
    {[wf |-> FALSE, TicketsAvailable |-> 0]} \cup
    [wf : {TRUE}, TicketsAvailable : TicketInputs]

\* validator tag "required": the field differs from its type's zero value.
RequiredStr(s) == s # ""
RequiredInt(n) == n # 0
\* validator tag "gte=0"
Gte0(n) == n >= 0

\* context.ShouldBindJSON(&event) for models.Event: TRUE when err == nil
BindEvent(p) ==
    /\ p.wf
    /\ RequiredStr(p.Name)
    /\ RequiredInt(p.TicketsAvailable)
    /\ Gte0(p.TicketsAvailable)

\* context.ShouldBindJSON(&payload) for ticketUpdateRequest
BindTicket(p) ==
    /\ p.wf
    /\ RequiredInt(p.TicketsAvailable)
    /\ Gte0(p.TicketsAvailable)

\* ----------------------------------------------------------- event store
NoEvent == [Name |-> "", UserID |-> 0, TicketsAvailable |-> 0]

\* models.GetEventByID: row.Scan fails with sql.ErrNoRows when id is absent
GetEventByID(evs, id) ==
    IF id \in DOMAIN evs
    THEN [err |-> FALSE, event |-> evs[id]]
    ELSE [err |-> TRUE, event |-> NoEvent]

\* mutant of EventSave: id INTEGER PRIMARY KEY without AUTOINCREMENT, where
\* the next id is one more than the largest id in the table
EventSaveRowID(evs, last, e) ==
    LET top == IF DOMAIN evs = {} THEN 0
               ELSE CHOOSE i \in DOMAIN evs : \A j \in DOMAIN evs : j <= i
    IN  [events |-> [i \in DOMAIN evs \cup {top + 1} |->
                        IF i = top + 1 THEN e ELSE evs[i]],
         lastEventID |-> top + 1]

\* Event.Save: INSERT; the id is the next AUTOINCREMENT value
EventSave(evs, last, e) ==
    [events |-> [i \in DOMAIN evs \cup {last + 1} |->
                    IF i = last + 1 THEN e ELSE evs[i]],
     lastEventID |-> last + 1]

\* mutant of EventUpdate: user_id in the SET list of the UPDATE
EventUpdateWithOwner(evs, id, e) ==
    [i \in DOMAIN evs |->
        IF i = id
        THEN [evs[i] EXCEPT !.Name = e.Name,
                            !.UserID = e.UserID,
                            !.TicketsAvailable = e.TicketsAvailable]
        ELSE evs[i]]

\* Event.Update: UPDATE ... SET name, ..., ticketsAvailable WHERE id = ?
\* (userID is not in the SET list; no row matched is not an error)
EventUpdate(evs, id, e) ==
    [i \in DOMAIN evs |->
        IF i = id
        THEN [evs[i] EXCEPT !.Name = e.Name,
                            !.TicketsAvailable = e.TicketsAvailable]
        ELSE evs[i]]

\* mutant of UpdateEventTickets: the UPDATE without its WHERE clause
UpdateEventTicketsEveryRow(evs, id, n) ==
    IF n < 0
    THEN [err |-> TRUE, events |-> evs]
    ELSE [err |-> FALSE,
          events |-> [i \in DOMAIN evs |-> [evs[i] EXCEPT !.TicketsAvailable = n]]]

\* mutant of UpdateEventTickets: the counter is only ever raised
\* (SET ticketsAvailable = MAX(ticketsAvailable, ?))
UpdateEventTicketsRaiseOnly(evs, id, n) ==
    IF n < 0
    THEN [err |-> TRUE, events |-> evs]
    ELSE [err |-> FALSE,
          events |-> [i \in DOMAIN evs |->
                        IF i = id /\ evs[i].TicketsAvailable < n
                        THEN [evs[i] EXCEPT !.TicketsAvailable = n]
                        ELSE evs[i]]]

\* models.UpdateEventTickets
UpdateEventTickets(evs, id, n) ==
    IF n < 0
    THEN [err |-> TRUE, events |-> evs]
    ELSE [err |-> FALSE,
          events |-> [i \in DOMAIN evs |->
                        IF i = id THEN [evs[i] EXCEPT !.TicketsAvailable = n]
                        ELSE evs[i]]]

\* Event.Delete: DELETE FROM events WHERE id = ?
EventDelete(evs, id) == [i \in DOMAIN evs \ {id} |-> evs[i]]

\* ------------------------------------------------------ registration ledger
\* SELECT COUNT(*) FROM registrations WHERE event_id = ? AND user_id = ?
RegCount(rs, e, u) == CopiesIn(<<e, u>>, rs)

\* INSERT INTO registrations (event_id, user_id): the table of db.createTables
\* has no UNIQUE(event_id, user_id) and SQLite does not enforce the foreign
\* keys by default, so the insert always adds a row.
RegInsert(rs, e, u) == rs (+) SetToBag({<<e, u>>})

\* mutant of RegDelete: the two statement arguments swapped
RegDeleteSwapped(rs, e, u) == [x \in DOMAIN rs \ {<<u, e>>} |-> rs[x]]

\* mutant of RegDelete: one matching row is deleted (DELETE ... LIMIT 1)
RegDeleteOneRow(rs, e, u) ==
    IF <<e, u>> \in DOMAIN rs THEN rs (-) SetToBag({<<e, u>>}) ELSE rs

\* DELETE FROM registrations WHERE event_id = ? AND user_id = ?
RegDelete(rs, e, u) == [x \in DOMAIN rs \ {<<e, u>>} |-> rs[x]]

\* ------------------------------------------------------------- handlers
\* A handler maps the store and a request to the store afterwards and the
\* response: [events, lastEventID, regs, status, message, body].
Store == [events |-> events, lastEventID |-> lastEventID, regs |-> regs]

\* context.JSON(status, gin.H{"message": message}) and return: store untouched
Reply(st, status, message) ==
    [events |-> st.events, lastEventID |-> st.lastEventID, regs |-> st.regs,
     status |-> status, message |-> message, body |-> <<>>]

\* what a handler has answered before its write; status 0: nothing yet, go on
Answer(status, message) == [status |-> status, message |-> message]
GoOn == Answer(0, "")

\* parseEventID and getEventByID (the helpers of the event handlers; the
\* registration handlers inline the same two steps)
FetchChecks(evs, id) ==
    LET n == ParseInt(id)
    IN  IF ~n.ok
        THEN Answer(StatusBadRequest, "Could not parse event id")
        ELSE IF GetEventByID(evs, n.val).err
        THEN Answer(StatusInternalServerError, "Could not fetch event")
        ELSE GoOn

\* mutant of checkEventAuthorization: the owner is not compared
checkEventAuthorizationAny(event, userId) == TRUE

\* checkEventAuthorization: TRUE when the request may go on
checkEventAuthorization(event, userId) == event.UserID = userId

\* parseEventID, getEventByID, checkEventAuthorization, in the handlers' order
OwnerChecks(evs, u, id, action) ==
    LET c == FetchChecks(evs, id)
    IN  IF c.status # 0
        THEN c
        ELSE IF ~checkEventAuthorization(GetEventByID(evs, ParseInt(id).val).event, u)
        THEN Answer(StatusUnauthorized, action)
        ELSE GoOn

\* mutant of CreateEventChecks: the handler and the Event struct before the
\* ticket counter was validated (no gte=0 tag, no negative check)
CreateEventChecksUnvalidated(p) ==
    IF ~(p.wf /\ RequiredStr(p.Name))
    THEN Answer(StatusBadRequest, "Could not parse data")
    ELSE GoOn

\* CreateEvent up to event.Save()
CreateEventChecks(p) ==
    IF ~BindEvent(p)
    THEN Answer(StatusBadRequest, "Could not parse data")
    ELSE IF p.TicketsAvailable < 0
    THEN Answer(StatusBadRequest, "TicketsAvailable cannot be negative")
    ELSE GoOn

\* mutant of UpdateEventChecks: the payload is bound without validating
\* the ticket counter
UpdateEventChecksUnvalidated(evs, u, id, p) ==
    LET c == OwnerChecks(evs, u, id, "You are not authorized to update this event")
    IN  IF c.status # 0
        THEN c
        ELSE IF ~(p.wf /\ RequiredStr(p.Name))
        THEN Answer(StatusBadRequest, "Could not parse data")
        ELSE GoOn

\* UpdateEvent up to updateEvent.Update()
UpdateEventChecks(evs, u, id, p) ==
    LET c == OwnerChecks(evs, u, id, "You are not authorized to update this event")
    IN  IF c.status # 0 THEN c ELSE CreateEventChecks(p)

\* mutant of DeleteEventChecks: the owner check left out
DeleteEventChecksNoOwner(evs, u, id) == FetchChecks(evs, id)

\* DeleteEvent up to event.Delete()
DeleteEventChecks(evs, u, id) ==
    OwnerChecks(evs, u, id, "You are not authorized to delete this event")

\* mutant of TicketCountChecks: the payload is bound before the owner check
TicketCountChecksBindFirst(evs, u, id, p) ==
    LET c == FetchChecks(evs, id)
    IN  IF c.status # 0
        THEN c
        ELSE IF ~BindTicket(p)
        THEN Answer(StatusBadRequest, "Could not parse data")
        ELSE OwnerChecks(evs, u, id,
                 "You are not authorized to update ticket count for this event")

\* mutant of TicketCountChecks: the owner check left out
TicketCountChecksNoOwner(evs, u, id, p) ==
    LET c == FetchChecks(evs, id)
    IN  IF c.status # 0
        THEN c
        ELSE IF ~BindTicket(p)
        THEN Answer(StatusBadRequest, "Could not parse data")
        ELSE GoOn

\* UpdateEventTicketCount up to models.UpdateEventTickets
TicketCountChecks(evs, u, id, p) ==
    LET c == OwnerChecks(evs, u, id,
                 "You are not authorized to update ticket count for this event")
    IN  IF c.status # 0
        THEN c
        ELSE IF ~BindTicket(p)
        THEN Answer(StatusBadRequest, "Could not parse data")
        ELSE GoOn

\* mutant of CreateEventHandler: the owner is taken from the payload
CreateEventHandlerPayloadOwner(st, u, p) ==
    LET c == CreateEventChecks(p)
        event == [Name |-> p.Name, UserID |-> p.UserID,
                  TicketsAvailable |-> p.TicketsAvailable]
        s == EventSave(st.events, st.lastEventID, event)
    IN  IF c.status # 0
        THEN Reply(st, c.status, c.message)
        ELSE [events |-> s.events, lastEventID |-> s.lastEventID, regs |-> st.regs,
              status |-> StatusCreated, message |-> "Event created successfully",
              body |-> <<s.lastEventID, event>>]

\* POST /events
CreateEventHandler(st, u, p) ==
    LET c == CreateEventChecks(p)
        event == [Name |-> p.Name, UserID |-> u,
                  TicketsAvailable |-> p.TicketsAvailable]
        s == EventSave(st.events, st.lastEventID, event)
    IN  IF c.status # 0
        THEN Reply(st, c.status, c.message)
        ELSE [events |-> s.events, lastEventID |-> s.lastEventID, regs |-> st.regs,
              status |-> StatusCreated, message |-> "Event created successfully",
              body |-> <<s.lastEventID, event>>]

\* GET /events/:id
GetEventHandler(st, id) ==
    LET c == FetchChecks(st.events, id)
    IN  IF c.status # 0
        THEN Reply(st, c.status, c.message)
        ELSE [Reply(st, StatusOK, "")
                EXCEPT !.body = <<ParseInt(id).val,
                                  GetEventByID(st.events, ParseInt(id).val).event>>]

\* PUT /events/:id
UpdateEventHandler(st, u, id, p) ==
    LET c == UpdateEventChecks(st.events, u, id, p)
    IN  IF c.status # 0
        THEN Reply(st, c.status, c.message)
        ELSE [Reply(st, StatusOK, "Event updated successfully")
                EXCEPT !.events = EventUpdate(st.events, ParseInt(id).val, p)]

\* mutant of DeleteEventHandler: the ledger rows of the event go with it
\* (registrations.event_id declared ON DELETE CASCADE and enforced)
DeleteEventHandlerCascade(st, u, id) ==
    LET c == DeleteEventChecks(st.events, u, id)
    IN  IF c.status # 0
        THEN Reply(st, c.status, c.message)
        ELSE [Reply(st, StatusOK, "Event deleted successfully")
                EXCEPT !.events = EventDelete(st.events, ParseInt(id).val),
                       !.regs = [x \in {y \in DOMAIN st.regs : y[1] # ParseInt(id).val}
                                    |-> st.regs[x]]]

\* DELETE /events/:id
DeleteEventHandler(st, u, id) ==
    LET c == DeleteEventChecks(st.events, u, id)
    IN  IF c.status # 0
        THEN Reply(st, c.status, c.message)
        ELSE [Reply(st, StatusOK, "Event deleted successfully")
                EXCEPT !.events = EventDelete(st.events, ParseInt(id).val)]

\* PUT /events/:id/tickets (the route the handler's tests mount)
UpdateEventTicketCountHandler(st, u, id, p) ==
    LET c == TicketCountChecks(st.events, u, id, p)
        w == UpdateEventTickets(st.events, ParseInt(id).val, p.TicketsAvailable)
    IN  IF c.status # 0
        THEN Reply(st, c.status, c.message)
        ELSE IF w.err
        THEN Reply(st, StatusInternalServerError, "Could not update ticket count")
        ELSE [Reply(st, StatusOK, "Ticket count updated successfully")
                EXCEPT !.events = w.events,
                       !.body = <<p.TicketsAvailable, ParseInt(id).val>>]

\* mutant of EventRegister: the COUNT(*) check left out
EventRegisterNoCheck(rs, e, u) == [err |-> "", regs |-> RegInsert(rs, e, u)]

\* Event.Register: err is "" for nil, else the error's text
EventRegister(rs, e, u) ==
    IF RegCount(rs, e, u) > 0
    THEN [err |-> "User already registered for this event", regs |-> rs]
    ELSE [err |-> "", regs |-> RegInsert(rs, e, u)]

\* mutant of EventCancelRegistration: the COUNT(*) check left out
EventCancelRegistrationNoCheck(rs, e, u) == [err |-> "", regs |-> RegDelete(rs, e, u)]

\* Event.CancelRegistration
EventCancelRegistration(rs, e, u) ==
    IF RegCount(rs, e, u) = 0
    THEN [err |-> "Event does not exist or has already been cancelled", regs |-> rs]
    ELSE [err |-> "", regs |-> RegDelete(rs, e, u)]

\* registerForEvent's answer to a non-nil err of event.Register:
\* strings.Contains(err.Error(), "already registered"), over the error texts
\* Event.Register produces
RegisterError(err) ==
    IF err = "User already registered for this event"
    THEN Answer(StatusConflict, "User already registered for this event")
    ELSE Answer(StatusInternalServerError, "Could not register for event")

\* cancelRegistration's answer to a non-nil err of event.CancelRegistration:
\* strings.Contains(err.Error(), "already been cancelled")
CancelError(err) ==
    IF err = "Event does not exist or has already been cancelled"
    THEN Answer(StatusNotFound, "Event does not exist or has already been cancelled")
    ELSE Answer(StatusInternalServerError, "Could not cancel registration")

\* mutant of registerForEventHandler: a registration takes one ticket
registerForEventHandlerCoupled(st, u, id) ==
    LET c == FetchChecks(st.events, id)
        e == ParseInt(id).val
        r == EventRegister(st.regs, e, u)
    IN  IF c.status # 0
        THEN Reply(st, c.status, c.message)
        ELSE IF r.err # ""
        THEN LET a == RegisterError(r.err) IN Reply(st, a.status, a.message)
        ELSE [Reply(st, StatusCreated, "Registered for event successfully")
                EXCEPT !.regs = r.regs,
                       !.events = [i \in DOMAIN st.events |->
                            IF i = e
                            THEN [st.events[i] EXCEPT !.TicketsAvailable = @ - 1]
                            ELSE st.events[i]]]

\* POST /events/:id/register
registerForEventHandler(st, u, id) ==
    LET c == FetchChecks(st.events, id)
        r == EventRegister(st.regs, ParseInt(id).val, u)
    IN  IF c.status # 0
        THEN Reply(st, c.status, c.message)
        ELSE IF r.err # ""
        THEN LET a == RegisterError(r.err) IN Reply(st, a.status, a.message)
        ELSE [Reply(st, StatusCreated, "Registered for event successfully")
                EXCEPT !.regs = r.regs]

\* DELETE /events/:id/register
cancelRegistrationHandler(st, u, id) ==
    LET c == FetchChecks(st.events, id)
        r == EventCancelRegistration(st.regs, ParseInt(id).val, u)
    IN  IF c.status # 0
        THEN Reply(st, c.status, c.message)
        ELSE IF r.err # ""
        THEN LET a == CancelError(r.err) IN Reply(st, a.status, a.message)
        ELSE [Reply(st, StatusOK, "Cancelled successfully") EXCEPT !.regs = r.regs]

\* ------------------------------------------------------------ user store
\* request inputs of signup, login and updatePassword
Emails == {"admin@email.com", "a@x.io"}
RoleInputs == {"", "admin", "root"}
LoginPasswords == {"admin", "secret2", "wrong"}
NewPasswords == {"", "admin", "secret2"}

\* A models.User body after JSON decoding; a missing key is the zero value.
MalformedUser == [wf |-> FALSE, Email |-> "", Password |-> "", Role |-> ""]
MissingPassword == [wf |-> TRUE, Email |-> "a@x.io", Password |-> "", Role |-> ""]
SignupPayloads ==
    {MalformedUser, MissingPassword} \cup
    [wf : {TRUE}, Email : Emails, Password : {"secret2"}, Role : RoleInputs]
LoginPayloads ==
    {MalformedUser, MissingPassword} \cup
    [wf : {TRUE}, Email : Emails, Password : LoginPasswords, Role : {""}]
PasswordPayloads ==
    {[wf |-> FALSE, NewPassword |-> ""]} \cup [wf : {TRUE}, NewPassword : NewPasswords]

\* context.ShouldBindJSON(&user) for models.User: TRUE when err == nil
BindUser(p) == p.wf /\ RequiredStr(p.Email) /\ RequiredStr(p.Password)

\* utils.HashPassword, utils.CheckPasswordHash: a hash verifies the password
\* it was made from and no other (the salt is left out)
HashPassword(pw) == <<"bcrypt", pw>>
CheckPasswordHash(pw, hash) == hash = <<"bcrypt", pw>>

\* db.createDefaultAdmin on an empty table
DefaultAdmin ==
    [Email |-> "admin@email.com", Password |-> HashPassword("admin"), Role |-> "admin"]

UserStore == [users |-> users, lastUserID |-> lastUserID]

\* context.JSON(status, ...) and return: user store untouched
UserReply(st, status, message) ==
    [users |-> st.users, lastUserID |-> st.lastUserID,
     status |-> status, message |-> message, body |-> <<>>]

\* mutant of UserSave: the column email without its UNIQUE constraint
UserSaveNoUnique(us, last, u) ==
    [err |-> FALSE,
     users |-> [i \in DOMAIN us \cup {last + 1} |->
                  IF i = last + 1
                  THEN [Email |-> u.Email, Password |-> HashPassword(u.Password),
                        Role |-> IF u.Role = "" THEN "user" ELSE u.Role]
                  ELSE us[i]],
     lastUserID |-> last + 1]

\* User.Save: the role defaults to "user"; the INSERT fails on an email that
\* a row already has (email TEXT NOT NULL UNIQUE)
UserSave(us, last, u) ==
    IF \E i \in DOMAIN us : us[i].Email = u.Email
    THEN [err |-> TRUE, users |-> us, lastUserID |-> last]
    ELSE [err |-> FALSE,
          users |-> [i \in DOMAIN us \cup {last + 1} |->
                       IF i = last + 1
                       THEN [Email |-> u.Email, Password |-> HashPassword(u.Password),
                             Role |-> IF u.Role = "" THEN "user" ELSE u.Role]
                       ELSE us[i]],
          lastUserID |-> last + 1]

\* mutant of ValidateCredentials: the password check left out
ValidateCredentialsNoPassword(us, u) ==
    IF \E i \in DOMAIN us : us[i].Email = u.Email
    THEN LET i == CHOOSE j \in DOMAIN us : us[j].Email = u.Email
         IN  [err |-> FALSE, ID |-> i,
              Role |-> IF us[i].Role = "" THEN "user" ELSE us[i].Role]
    ELSE [err |-> TRUE, ID |-> 0, Role |-> ""]

\* User.ValidateCredentials: the row of the email, then the password check
ValidateCredentials(us, u) ==
    IF \E i \in DOMAIN us : us[i].Email = u.Email
    THEN LET i == CHOOSE j \in DOMAIN us : us[j].Email = u.Email
         IN  IF CheckPasswordHash(u.Password, us[i].Password)
             THEN [err |-> FALSE, ID |-> i,
                   Role |-> IF us[i].Role = "" THEN "user" ELSE us[i].Role]
             ELSE [err |-> TRUE, ID |-> i, Role |-> us[i].Role]
    ELSE [err |-> TRUE, ID |-> 0, Role |-> ""]

\* mutant of UserUpdatePassword: the UPDATE without its WHERE clause
UserUpdatePasswordEveryRow(us, id, newPassword) ==
    [i \in DOMAIN us |-> [us[i] EXCEPT !.Password = HashPassword(newPassword)]]

\* User.UpdatePassword: UPDATE users SET password = ? WHERE id = ?
UserUpdatePassword(us, id, newPassword) ==
    [i \in DOMAIN us |->
        IF i = id THEN [us[i] EXCEPT !.Password = HashPassword(newPassword)]
        ELSE us[i]]

\* ------------------------------------------------------------------ tokens
\* An int64 as hi * Limb + lo, so that values around 2^53 can be written.
Limb == 134217728
ToInt64(n) == [hi |-> 0, lo |-> n]
\* for the values below Limb
FromInt64(b) == b.lo

\* encoding/json decodes a JSON number into a float64: the nearest value with
\* a 53-bit mantissa, a tie going to the even mantissa.  Values below 2^53
\* are exact; from 2^53 up to 2^54 only the even ones are.
Float64(b) ==
    IF b.hi < Limb \div 2 \/ b.lo % 2 = 0
    THEN b
    ELSE IF ((b.lo - 1) \div 2) % 2 = 0
    THEN [b EXCEPT !.lo = b.lo - 1]
    ELSE IF b.lo + 1 = Limb
    THEN [hi |-> b.hi + 1, lo |-> 0]
    ELSE [b EXCEPT !.lo = b.lo + 1]

\* user ids handed to GenerateToken: 0, 1, 999, 2^53 - 1, 2^53, 2^53 + 1, 2^53 + 3
Int64Inputs ==
    {ToInt64(0), ToInt64(1), ToInt64(999),
     [hi |-> Limb \div 2 - 1, lo |-> Limb - 1],
     [hi |-> Limb \div 2, lo |-> 0],
     [hi |-> Limb \div 2, lo |-> 1],
     [hi |-> Limb \div 2, lo |-> 3]}

secretKey == "supersecretkey"
\* time.Hour * 2
TokenHours == 2

\* a claim of a token's payload: a JSON number, a JSON string, or no such key
Number(b) == [type |-> "number", val |-> b]
NoClaim == [type |-> "absent", val |-> ToInt64(0)]
TextClaim == [type |-> "string", val |-> ToInt64(0)]

\* A token string: three base64 segments (wf) naming the algorithm, signed
\* with a key, carrying the claims userId, email and exp.
Signed(alg, key, userId, email, exp) ==
    [wf |-> TRUE, alg |-> alg, key |-> key,
     userId |-> userId, email |-> email, exp |-> exp]
\* a string that is no JWT
Garbage == [wf |-> FALSE, alg |-> "", key |-> "",
            userId |-> NoClaim, email |-> "", exp |-> 0]

\* utils.GenerateToken, at time now
GenerateToken(userID, email, now) ==
    Signed("HS256", secretKey, Number(userID), email, now + TokenHours)

\* utils.VerifyToken, at time now.  jwt.Parse fails on a string that is no
\* JWT, on a signing method that is not HMAC, on an exp in the past and on a
\* signature made with another key; the type assertion on claims["userId"]
\* panics on anything that is not a JSON number.
VerifyToken(t, now) ==
    IF ~t.wf \/ t.alg # "HS256" \/ now > t.exp \/ t.key # secretKey
    THEN [userId |-> ToInt64(0), err |-> "Could not parse", panic |-> FALSE]
    ELSE IF t.userId.type # "number"
    THEN [userId |-> ToInt64(0), err |-> "", panic |-> TRUE]
    ELSE [userId |-> Float64(t.userId.val), err |-> "", panic |-> FALSE]

\* ------------------------------------------------------- Authorization header
\* kind: "none" (no header), "raw" (the token alone), "bearer" ("Bearer " and
\* the token), "prefix" ("Bearer " and nothing else)
Header(kind, t) == [kind |-> kind, token |-> t]
NoHeader == Header("none", Garbage)

\* headers that carry no valid token, at clock 0
BadHeaders ==
    {NoHeader,
     Header("prefix", Garbage),
     Header("bearer", Garbage),
     Header("bearer", Signed("HS256", "differentsecretkey",
                             Number(ToInt64(1)), "admin@email.com", TokenHours)),
     Header("bearer", Signed("RS256", secretKey,
                             Number(ToInt64(1)), "admin@email.com", TokenHours)),
     Header("bearer", GenerateToken(ToInt64(1), "admin@email.com", 0 - 3))}
\* headers with a token login hands out now: one per stored user, as
\* "Bearer <token>", and the admin's also without the prefix
GoodHeaders ==
    {Header("bearer", GenerateToken(ToInt64(i), users[i].Email, clock)) :
        i \in DOMAIN users} \cup
    {Header("raw", GenerateToken(ToInt64(1), users[1].Email, clock))}
\* correctly signed and unexpired, without a numeric userId claim
ClaimlessHeaders ==
    {Header("bearer", Signed("HS256", secretKey, NoClaim, "a@x.io", TokenHours)),
     Header("bearer", Signed("HS256", secretKey, TextClaim, "a@x.io", TokenHours))}
AuthHeaders == BadHeaders \cup GoodHeaders \cup ClaimlessHeaders

\* mutant of Authenticate: a token that does not verify is let through as
\* user 0 (the abort after VerifyToken left out)
AuthenticateNoAbort(h, now) ==
    IF h.kind = "none"
    THEN [userId |-> 0, panic |-> FALSE, status |-> StatusUnauthorized,
          message |-> "No authorization token provided"]
    ELSE LET v == VerifyToken(IF h.kind = "prefix" THEN Garbage ELSE h.token, now)
         IN  IF v.panic
             THEN [userId |-> 0, panic |-> TRUE,
                   status |-> StatusInternalServerError, message |-> ""]
             ELSE [userId |-> FromInt64(v.userId), panic |-> FALSE,
                   status |-> 0, message |-> ""]

\* middlewares.Authenticate, at time now.  status 0: context.Next() with
\* userId set; 401: aborted; panic: VerifyToken panicked below it, which the
\* Recovery middleware of gin.Default() (main.go) answers with 500.
Authenticate(h, now) ==
    IF h.kind = "none"
    THEN [userId |-> 0, panic |-> FALSE, status |-> StatusUnauthorized,
          message |-> "No authorization token provided"]
    ELSE LET v == VerifyToken(IF h.kind = "prefix" THEN Garbage ELSE h.token, now)
         IN  IF v.panic
             THEN [userId |-> 0, panic |-> TRUE,
                   status |-> StatusInternalServerError, message |-> ""]
             ELSE IF v.err # ""
             THEN [userId |-> 0, panic |-> FALSE, status |-> StatusUnauthorized,
                   message |-> "Invalid/No authorization token"]
             ELSE [userId |-> FromInt64(v.userId), panic |-> FALSE,
                   status |-> 0, message |-> ""]

\* ------------------------------------------------------------ user handlers
\* A user handler maps the user store and a request to the user store
\* afterwards and the response: [users, lastUserID, status, message, body].
\* POST /signup
signupHandler(st, p) ==
    LET s == UserSave(st.users, st.lastUserID, p)
    IN  IF ~BindUser(p)
        THEN UserReply(st, StatusBadGateway, "Could not parse data")
        ELSE IF s.err
        THEN UserReply(st, StatusInternalServerError, "Could not save user")
        ELSE [users |-> s.users, lastUserID |-> s.lastUserID,
              status |-> StatusCreated, message |-> "User created successfully",
              body |-> <<>>]

\* POST /login, at time now
loginHandler(st, p, now) ==
    LET v == ValidateCredentials(st.users, p)
    IN  IF ~BindUser(p)
        THEN UserReply(st, StatusBadRequest, "Could not parse data")
        ELSE IF v.err
        THEN UserReply(st, StatusUnauthorized, "Could not authenticate user")
        ELSE [UserReply(st, StatusOK, "Login successful")
                EXCEPT !.body = <<GenerateToken(ToInt64(v.ID), p.Email, now),
                                  v.Role, p.Email>>]

\* PUT /users/password behind the gate
updatePasswordHandler(st, userId, p) ==
    IF ~(p.wf /\ RequiredStr(p.NewPassword))
    THEN UserReply(st, StatusBadRequest, "Could not parse data")
    ELSE IF Len(p.NewPassword) < 6
    THEN UserReply(st, StatusBadRequest, "Password must be at least 6 characters long")
    ELSE IF userId \notin DOMAIN st.users
    THEN UserReply(st, StatusNotFound, "User not found")
    ELSE [UserReply(st, StatusOK, "Password updated successfully")
            EXCEPT !.users = UserUpdatePassword(st.users, userId, p.NewPassword)]

\* The authenticated group of RegisterRoutes: Authenticate runs first; the
\* handler runs with the userId it set when it called context.Next(), else
\* the gate's answer stands and the store is untouched.
authenticatedCreateEvent(st, h, p, now) ==
    LET a == Authenticate(h, now)
    IN  IF a.status # 0 THEN Reply(st, a.status, a.message)
        ELSE CreateEventHandler(st, a.userId, p)
authenticatedUpdateEvent(st, h, id, p, now) ==
    LET a == Authenticate(h, now)
    IN  IF a.status # 0 THEN Reply(st, a.status, a.message)
        ELSE UpdateEventHandler(st, a.userId, id, p)
authenticatedDeleteEvent(st, h, id, now) ==
    LET a == Authenticate(h, now)
    IN  IF a.status # 0 THEN Reply(st, a.status, a.message)
        ELSE DeleteEventHandler(st, a.userId, id)
authenticatedRegisterForEvent(st, h, id, now) ==
    LET a == Authenticate(h, now)
    IN  IF a.status # 0 THEN Reply(st, a.status, a.message)
        ELSE registerForEventHandler(st, a.userId, id)
authenticatedCancelRegistration(st, h, id, now) ==
    LET a == Authenticate(h, now)
    IN  IF a.status # 0 THEN Reply(st, a.status, a.message)
        ELSE cancelRegistrationHandler(st, a.userId, id)
authenticatedUpdatePassword(st, h, p, now) ==
    LET a == Authenticate(h, now)
    IN  IF a.status # 0 THEN UserReply(st, a.status, a.message)
        ELSE updatePasswordHandler(st, a.userId, p)

\* ------------------------------------------------- Spec: one request at a time
\* a worker between requests; status is what it answered last
Idle(status) ==
    [pc |-> "idle", op |-> "none", user |-> 0, id |-> 0,
     name |-> "", n |-> 0, status |-> status]

Init ==
    /\ events = <<>>
    /\ lastEventID = 0
    /\ regs = EmptyBag
    /\ resp = Answer(0, "")
    /\ proc = [p \in Procs |-> Idle(0)]
    /\ users = <<DefaultAdmin>>
    /\ lastUserID = 1
    /\ token = Garbage
    /\ clock = 0
    /\ verified = [done |-> FALSE, userId |-> ToInt64(0), err |-> ""]

\* the handler's outcome r becomes the store and the client's response
Serve(result) ==
    LET r == result
    IN  /\ r.lastEventID <= MaxEvents
        /\ events' = r.events
        /\ lastEventID' = r.lastEventID
        /\ regs' = r.regs
        /\ resp' = Answer(r.status, r.message)
        /\ UNCHANGED <<proc, authVars>>

CreateEvent(u, p) == Serve(CreateEventHandler(Store, u, p))
GetEvent(id) == Serve(GetEventHandler(Store, id))
UpdateEvent(u, id, p) == Serve(UpdateEventHandler(Store, u, id, p))
DeleteEvent(u, id) == Serve(DeleteEventHandler(Store, u, id))
UpdateEventTicketCount(u, id, p) ==
    Serve(UpdateEventTicketCountHandler(Store, u, id, p))
registerForEvent(u, id) == Serve(registerForEventHandler(Store, u, id))
cancelRegistration(u, id) == Serve(cancelRegistrationHandler(Store, u, id))

Next ==
    \/ \E u \in Users, p \in EventPayloads : CreateEvent(u, p)
    \/ \E id \in IdParams : GetEvent(id)
    \/ \E u \in Users, id \in IdParams, p \in EventPayloads : UpdateEvent(u, id, p)
    \/ \E u \in Users, id \in IdParams : DeleteEvent(u, id)
    \/ \E u \in Users, id \in IdParams, p \in TicketPayloads : UpdateEventTicketCount(u, id, p)
    \/ \E u \in Users, id \in IdParams : registerForEvent(u, id)
    \/ \E u \in Users, id \in IdParams : cancelRegistration(u, id)

Spec == Init /\ [][Next]_vars

\* ----------------------- SpecConcEvents, SpecConcLedger: interleaved workers
\* Each worker serves one request at a time.  A handler's steps are its store
\* statements: everything a handler computes between two statements is local
\* and belongs to the step of the statement before it.
InFlight(pc, op, u, e, name, n) ==
    [pc |-> pc, op |-> op, user |-> u, id |-> e, name |-> name, n |-> n, status |-> 0]

\* context.JSON(status, ...): the worker is free again
Done(p, status) == proc' = [proc EXCEPT ![p] = Idle(status)]

At(p, pc, op) == proc[p].pc = pc /\ proc[p].op = op

\* CreateEvent has one store statement (the INSERT of Event.Save)
ConcCreateEvent(p, u, pl) ==
    /\ proc[p].pc = "idle"
    /\ LET r == CreateEventHandler(Store, u, pl)
       IN  /\ r.lastEventID <= MaxEvents
           /\ events' = r.events
           /\ lastEventID' = r.lastEventID
           /\ Done(p, r.status)
    /\ UNCHANGED <<regs, resp, authVars>>

\* UpdateEvent: SELECT (GetEventByID), owner check and binding, then UPDATE
BeginUpdateEvent(p, u, id, pl) ==
    /\ proc[p].pc = "idle"
    /\ LET c == UpdateEventChecks(events, u, id, pl)
       IN  IF c.status # 0
           THEN Done(p, c.status)
           ELSE proc' = [proc EXCEPT ![p] =
                    InFlight("write", "update", u, ParseInt(id).val,
                             pl.Name, pl.TicketsAvailable)]
    /\ UNCHANGED <<events, lastEventID, regs, resp, authVars>>

WriteUpdateEvent(p) ==
    /\ At(p, "write", "update")
    /\ events' = EventUpdate(events, proc[p].id,
                     [Name |-> proc[p].name, TicketsAvailable |-> proc[p].n])
    /\ Done(p, StatusOK)
    /\ UNCHANGED <<lastEventID, regs, resp, authVars>>

\* DeleteEvent: SELECT and owner check, then DELETE
BeginDeleteEvent(p, u, id) ==
    /\ proc[p].pc = "idle"
    /\ LET c == DeleteEventChecks(events, u, id)
       IN  IF c.status # 0
           THEN Done(p, c.status)
           ELSE proc' = [proc EXCEPT ![p] =
                    InFlight("write", "delete", u, ParseInt(id).val, "", 0)]
    /\ UNCHANGED <<events, lastEventID, regs, resp, authVars>>

WriteDeleteEvent(p) ==
    /\ At(p, "write", "delete")
    /\ events' = EventDelete(events, proc[p].id)
    /\ Done(p, StatusOK)
    /\ UNCHANGED <<lastEventID, regs, resp, authVars>>

\* UpdateEventTicketCount: SELECT, owner check and binding, then UPDATE
BeginTicketCount(p, u, id, pl) ==
    /\ proc[p].pc = "idle"
    /\ LET c == TicketCountChecks(events, u, id, pl)
       IN  IF c.status # 0
           THEN Done(p, c.status)
           ELSE proc' = [proc EXCEPT ![p] =
                    InFlight("write", "tickets", u, ParseInt(id).val,
                             "", pl.TicketsAvailable)]
    /\ UNCHANGED <<events, lastEventID, regs, resp, authVars>>

WriteTicketCount(p) ==
    /\ At(p, "write", "tickets")
    /\ LET w == UpdateEventTickets(events, proc[p].id, proc[p].n)
       IN  IF w.err
           THEN Done(p, StatusInternalServerError) /\ UNCHANGED events
           ELSE Done(p, StatusOK) /\ events' = w.events
    /\ UNCHANGED <<lastEventID, regs, resp, authVars>>

\* registerForEvent: SELECT (GetEventByID), SELECT COUNT(*), INSERT
BeginRegister(p, u, id) ==
    /\ proc[p].pc = "idle"
    /\ LET c == FetchChecks(events, id)
       IN  IF c.status # 0
           THEN Done(p, c.status)
           ELSE proc' = [proc EXCEPT ![p] =
                    InFlight("count", "register", u, ParseInt(id).val, "", 0)]
    /\ UNCHANGED <<events, lastEventID, regs, resp, authVars>>

CountRegister(p) ==
    /\ At(p, "count", "register")
    /\ IF RegCount(regs, proc[p].id, proc[p].user) > 0
       THEN Done(p, RegisterError("User already registered for this event").status)
       ELSE proc' = [proc EXCEPT ![p].pc = "write"]
    /\ UNCHANGED <<events, lastEventID, regs, resp, authVars>>

WriteRegister(p) ==
    /\ At(p, "write", "register")
    /\ regs' = RegInsert(regs, proc[p].id, proc[p].user)
    /\ Done(p, StatusCreated)
    /\ UNCHANGED <<events, lastEventID, resp, authVars>>

\* cancelRegistration: SELECT (GetEventByID), SELECT COUNT(*), DELETE
BeginCancel(p, u, id) ==
    /\ proc[p].pc = "idle"
    /\ LET c == FetchChecks(events, id)
       IN  IF c.status # 0
           THEN Done(p, c.status)
           ELSE proc' = [proc EXCEPT ![p] =
                    InFlight("count", "cancel", u, ParseInt(id).val, "", 0)]
    /\ UNCHANGED <<events, lastEventID, regs, resp, authVars>>

CountCancel(p) ==
    /\ At(p, "count", "cancel")
    /\ IF RegCount(regs, proc[p].id, proc[p].user) = 0
       THEN Done(p, CancelError("Event does not exist or has already been cancelled").status)
       ELSE proc' = [proc EXCEPT ![p].pc = "write"]
    /\ UNCHANGED <<events, lastEventID, regs, resp, authVars>>

WriteCancel(p) ==
    /\ At(p, "write", "cancel")
    /\ regs' = RegDelete(regs, proc[p].id, proc[p].user)
    /\ Done(p, StatusOK)
    /\ UNCHANGED <<events, lastEventID, resp, authVars>>

\* the handlers of table events, interleaved
NextConcEvents ==
    \E p \in Procs :
        \/ \E u \in Users, pl \in EventPayloads : ConcCreateEvent(p, u, pl)
        \/ \E u \in Users, id \in IdParams, pl \in EventPayloads : BeginUpdateEvent(p, u, id, pl)
        \/ WriteUpdateEvent(p)
        \/ \E u \in Users, id \in IdParams : BeginDeleteEvent(p, u, id)
        \/ WriteDeleteEvent(p)
        \/ \E u \in Users, id \in IdParams, pl \in TicketPayloads : BeginTicketCount(p, u, id, pl)
        \/ WriteTicketCount(p)

SpecConcEvents == Init /\ [][NextConcEvents]_vars

\* the handlers of table registrations, interleaved, over events that
\* CreateEvent adds
NextConcLedger ==
    \E p \in Procs :
        \/ \E u \in Users, pl \in EventPayloads : ConcCreateEvent(p, u, pl)
        \/ \E u \in Users, id \in IdParams : BeginRegister(p, u, id)
        \/ CountRegister(p)
        \/ WriteRegister(p)
        \/ \E u \in Users, id \in IdParams : BeginCancel(p, u, id)
        \/ CountCancel(p)
        \/ WriteCancel(p)

SpecConcLedger == Init /\ [][NextConcLedger]_vars

\* ------------------------------ SpecAuth: the routes behind the gate, one
\* request at a time, with the clock at 0
\* event bodies sent through the gate: one that does not decode, one valid
GateEventPayloads ==
    {Malformed, [wf |-> TRUE, Name |-> "a", UserID |-> 2, TicketsAvailable |-> 1]}

\* the outcome r of a route on the event store or the ledger
ServeGate(result) ==
    LET r == result
    IN  /\ r.lastEventID <= MaxGateEvents
        /\ events' = r.events
        /\ lastEventID' = r.lastEventID
        /\ regs' = r.regs
        /\ resp' = Answer(r.status, r.message)
        /\ UNCHANGED <<proc, authVars>>

\* the outcome r of a user handler becomes the user store and the response
ServeUser(result) ==
    LET r == result
    IN  /\ users' = r.users
        /\ lastUserID' = r.lastUserID
        /\ resp' = Answer(r.status, r.message)
        /\ UNCHANGED <<events, lastEventID, regs, proc, token, clock, verified>>

signup(p) == ServeUser(signupHandler(UserStore, p))
login(p) == ServeUser(loginHandler(UserStore, p, clock))
updatePassword(h, p) == ServeUser(authenticatedUpdatePassword(UserStore, h, p, clock))
PostEvents(h, p) == ServeGate(authenticatedCreateEvent(Store, h, p, clock))
PutEvent(h, id, p) == ServeGate(authenticatedUpdateEvent(Store, h, id, p, clock))
DeleteEventRoute(h, id) == ServeGate(authenticatedDeleteEvent(Store, h, id, clock))
PostRegister(h, id) == ServeGate(authenticatedRegisterForEvent(Store, h, id, clock))
DeleteRegister(h, id) == ServeGate(authenticatedCancelRegistration(Store, h, id, clock))

NextAuth ==
    \/ \E p \in SignupPayloads : signup(p)
    \/ \E p \in LoginPayloads : login(p)
    \/ \E h \in AuthHeaders, p \in PasswordPayloads : updatePassword(h, p)
    \/ \E h \in AuthHeaders, p \in GateEventPayloads : PostEvents(h, p)
    \/ \E h \in AuthHeaders, id \in IdParams, p \in GateEventPayloads : PutEvent(h, id, p)
    \/ \E h \in AuthHeaders, id \in IdParams : DeleteEventRoute(h, id)
    \/ \E h \in AuthHeaders, id \in IdParams : PostRegister(h, id)
    \/ \E h \in AuthHeaders, id \in IdParams : DeleteRegister(h, id)

SpecAuth == Init /\ [][NextAuth]_vars

\* ------------------- SpecToken: GenerateToken and VerifyToken over the clock
GenerateTokenStep(userID, email) ==
    /\ token' = GenerateToken(userID, email, clock)
    /\ verified' = [done |-> FALSE, userId |-> ToInt64(0), err |-> ""]
    /\ UNCHANGED <<events, lastEventID, regs, resp, proc, users, lastUserID, clock>>

\* an hour passes
Tick ==
    /\ clock < MaxClock
    /\ clock' = clock + 1
    /\ UNCHANGED <<events, lastEventID, regs, resp, proc, users, lastUserID,
                   token, verified>>

VerifyTokenStep ==
    /\ token.wf
    /\ LET v == VerifyToken(token, clock)
       IN  verified' = [done |-> TRUE, userId |-> v.userId, err |-> v.err]
    /\ UNCHANGED <<events, lastEventID, regs, resp, proc, users, lastUserID,
                   token, clock>>

NextToken ==
    \/ \E userID \in Int64Inputs, email \in Emails : GenerateTokenStep(userID, email)
    \/ Tick
    \/ VerifyTokenStep

SpecToken == Init /\ [][NextToken]_vars

\* ===================================================================== claims
\* the event an id parameter names, when FetchChecks lets the request go on
Found(id) == FetchChecks(events, id).status = 0
EventOf(id) == events[ParseInt(id).val]
Rows(rs, id, u) == RegCount(rs, ParseInt(id).val, u)
Answered(r) == Answer(r.status, r.message)

\* C1: for an existing event and a user with no registration for it, two
\* Register requests in a row are answered 201 and then 409, and the ledger
\* then holds exactly one row for the pair.
ThmRegisterTwice ==
    \A u \in Users, id \in IdParams :
        (Found(id) /\ Rows(regs, id, u) = 0) =>
            LET r1 == registerForEventHandler(Store, u, id)
                r2 == registerForEventHandler(r1, u, id)
            IN  /\ r1.status = StatusCreated
                /\ r2.status = StatusConflict
                /\ Rows(r2.regs, id, u) = 1

\* a second Register has just been answered 409 and the pair's row is there
WitRegisterTwice ==
    /\ resp = Answer(StatusConflict, "User already registered for this event")
    /\ \E u \in Users, id \in IdParams : Found(id) /\ Rows(regs, id, u) = 1

\* C2 (as claimed): the ledger never holds two rows for one (event, user)
\* pair, also when Register requests for the pair interleave.
CexNoDuplicateRegistration ==
    \A e \in 1..MaxEvents, u \in Users : RegCount(regs, e, u) <= 1

\* C3: for an existing event and a user with no ledger row for it,
\* CancelRegistration is answered 404 and leaves the ledger as it was.
ThmCancelUnregistered ==
    \A u \in Users, id \in IdParams :
        (Found(id) /\ Rows(regs, id, u) = 0) =>
            LET r == cancelRegistrationHandler(Store, u, id)
            IN  /\ r.status = StatusNotFound
                /\ r.regs = regs

\* a cancel has just been answered 404 while the ledger holds other rows
WitCancelUnregistered ==
    /\ resp = Answer(StatusNotFound, "Event does not exist or has already been cancelled")
    /\ regs # EmptyBag
    /\ \E u \in Users, id \in IdParams : Found(id) /\ Rows(regs, id, u) = 0

\* C4: from an unregistered pair on an existing event, Register, then
\* CancelRegistration, then Register succeed one after the other; the ledger
\* has no row for the pair after the cancel and exactly one after the last
\* Register.
ThmRoundTrip ==
    \A u \in Users, id \in IdParams :
        (Found(id) /\ Rows(regs, id, u) = 0) =>
            LET r1 == registerForEventHandler(Store, u, id)
                r2 == cancelRegistrationHandler(r1, u, id)
                r3 == registerForEventHandler(r2, u, id)
            IN  /\ r1.status = StatusCreated
                /\ r2.status = StatusOK
                /\ Rows(r2.regs, id, u) = 0
                /\ r3.status = StatusCreated
                /\ Rows(r3.regs, id, u) = 1

\* a cancel has just succeeded on an event that is still there: the pair is
\* absent again and the last Register of the round trip is what comes next
WitRoundTrip ==
    /\ resp = Answer(StatusOK, "Cancelled successfully")
    /\ \E u \in Users, id \in IdParams :
        /\ Found(id)
        /\ Rows(regs, id, u) = 0
        /\ registerForEventHandler(Store, u, id).status = StatusCreated

\* C5: a ticket-count update by a user who is not the event's owner is
\* answered 401 whatever the payload (negative, zero, positive, malformed),
\* and the event store is unchanged.
ThmTicketCountNonOwner ==
    \A u \in Users, id \in IdParams, p \in TicketPayloads :
        (Found(id) /\ EventOf(id).UserID # u) =>
            LET r == UpdateEventTicketCountHandler(Store, u, id, p)
            IN  /\ r.status = StatusUnauthorized
                /\ r.events = events

\* a ticket-count update has just been answered 401
WitTicketCountNonOwner ==
    /\ resp = Answer(StatusUnauthorized,
                     "You are not authorized to update ticket count for this event")
    /\ \E u \in Users, id \in IdParams : Found(id) /\ EventOf(id).UserID # u

\* C6 (as claimed): a ticket-count update by the owner is rejected exactly
\* when the count is negative; every count >= 0, 0 included, is answered 200
\* and stored.
CexTicketCountIffNegative ==
    \A u \in Users, id \in IdParams, p \in TicketPayloads :
        (Found(id) /\ EventOf(id).UserID = u /\ p.wf) =>
            LET r == UpdateEventTicketCountHandler(Store, u, id, p)
            IN  IF p.TicketsAvailable < 0
                THEN r.status # StatusOK /\ r.events = events
                ELSE /\ r.status = StatusOK
                     /\ r.events[ParseInt(id).val].TicketsAvailable = p.TicketsAvailable

\* C7: every stored event has ticketsAvailable >= 0, and a CreateEvent,
\* UpdateEvent or UpdateTicketCount request that carries a negative value is
\* rejected and changes no stored event.
ThmTicketsNonNegative ==
    /\ \A e \in DOMAIN events : events[e].TicketsAvailable >= 0
    /\ \A u \in Users, p \in EventPayloads :
        p.TicketsAvailable < 0 =>
            LET r == CreateEventHandler(Store, u, p)
            IN  r.status >= 400 /\ r.events = events
    /\ \A u \in Users, id \in IdParams, p \in EventPayloads :
        p.TicketsAvailable < 0 =>
            LET r == UpdateEventHandler(Store, u, id, p)
            IN  r.status >= 400 /\ r.events = events
    /\ \A u \in Users, id \in IdParams, p \in TicketPayloads :
        p.TicketsAvailable < 0 =>
            LET r == UpdateEventTicketCountHandler(Store, u, id, p)
            IN  r.status >= 400 /\ r.events = events

\* an owner's update with a negative count has just been rejected (400)
\* while events are stored
WitTicketsNonNegative ==
    /\ resp = Answer(StatusBadRequest, "Could not parse data")
    /\ \E u \in Users, id \in IdParams, p \in EventPayloads :
        /\ Found(id)
        /\ EventOf(id).UserID = u
        /\ p.TicketsAvailable < 0
        /\ Answered(UpdateEventHandler(Store, u, id, p)) = resp

\* every UpdateEvent, DeleteEvent or UpdateTicketCount request on a stored
\* event by a user other than its owner is answered 401 at the owner check
NonOwnerUnauthorized ==
    \A u \in Users, id \in IdParams :
        (Found(id) /\ EventOf(id).UserID # u) =>
            /\ \A p \in EventPayloads :
                 UpdateEventChecks(events, u, id, p).status = StatusUnauthorized
            /\ DeleteEventChecks(events, u, id).status = StatusUnauthorized
            /\ \A p \in TicketPayloads :
                 TicketCountChecks(events, u, id, p).status = StatusUnauthorized

\* C8: in every interleaving, a step that changes or removes an event is the
\* write of an UpdateEvent, DeleteEvent or UpdateTicketCount request issued
\* by the user recorded as the event's owner, a worker gets to such a write
\* only as the owner, and in every event store a step leads to, a request
\* from any other user is answered 401 before any write.
ThmOwnerOnly ==
    [][/\ \A e \in DOMAIN events :
            (e \notin DOMAIN events' \/ events'[e] # events[e]) =>
                \E p \in Procs :
                    /\ proc[p].pc = "write"
                    /\ proc[p].op \in {"update", "delete", "tickets"}
                    /\ proc[p].id = e
                    /\ proc[p].user = events[e].UserID
                    /\ proc'[p].pc = "idle"
       /\ \A p \in Procs :
            (proc[p].pc = "idle" /\ proc'[p].pc = "write") =>
                /\ proc'[p].id \in DOMAIN events
                /\ proc'[p].user = events[proc'[p].id].UserID
       /\ (events' # events) => NonOwnerUnauthorized'
      ]_vars

\* one worker holds an owner's pending write on an event that another worker,
\* answered 401 just before, may not touch
WitOwnerOnly ==
    \E p \in Procs, q \in Procs :
        /\ proc[p].pc = "write"
        /\ proc[p].id \in DOMAIN events
        /\ proc[p].user = events[proc[p].id].UserID
        /\ proc[q].pc = "idle"
        /\ proc[q].status = StatusUnauthorized

\* C9: DeleteEvent by a user other than the owner is answered 401, and a
\* GetEvent for the id right after returns the event with every field as
\* before.
ThmDeleteNonOwner ==
    \A u \in Users, id \in IdParams :
        (Found(id) /\ EventOf(id).UserID # u) =>
            LET r == DeleteEventHandler(Store, u, id)
                g == GetEventHandler(r, id)
            IN  /\ r.status = StatusUnauthorized
                /\ g.status = StatusOK
                /\ g.body = <<ParseInt(id).val, EventOf(id)>>

\* a delete has just been answered 401 and the event is still served
WitDeleteNonOwner ==
    /\ resp = Answer(StatusUnauthorized, "You are not authorized to delete this event")
    /\ \E u \in Users, id \in IdParams :
        /\ Found(id)
        /\ EventOf(id).UserID # u
        /\ GetEventHandler(Store, id).status = StatusOK

\* C10: CreateEvent with ticketsAvailable < 0 is answered 400 and stores no
\* event.
ThmCreateNegative ==
    \A u \in Users, p \in EventPayloads :
        (p.wf /\ p.TicketsAvailable < 0) =>
            LET r == CreateEventHandler(Store, u, p)
            IN  /\ r.status = StatusBadRequest
                /\ r.events = events
                /\ r.lastEventID = lastEventID

\* a create carrying a negative count has just been answered 400, and the
\* store holds no event it could have added
WitCreateNegative ==
    /\ resp.status = StatusBadRequest
    /\ lastEventID = 0
    /\ events = <<>>
    /\ \E u \in Users, p \in EventPayloads :
        /\ p.wf
        /\ p.Name # ""
        /\ p.TicketsAvailable < 0
        /\ Answered(CreateEventHandler(Store, u, p)) = resp

\* C11 (as claimed): CreateEvent with otherwise valid attributes and any
\* ticketsAvailable >= 0, 0 included, answers 201 and stores exactly one new
\* event carrying that count.
CexCreateNonNegative ==
    \A u \in Users, p \in EventPayloads :
        (p.wf /\ RequiredStr(p.Name) /\ p.TicketsAvailable >= 0) =>
            LET r == CreateEventHandler(Store, u, p)
            IN  /\ r.status = StatusCreated
                /\ r.lastEventID = lastEventID + 1
                /\ DOMAIN r.events = DOMAIN events \cup {r.lastEventID}
                /\ r.events[r.lastEventID].TicketsAvailable = p.TicketsAvailable
                /\ \A e \in DOMAIN events : r.events[e] = events[e]

\* C12: the owner stored by a successful CreateEvent is the authenticated
\* user of the request, whatever UserID the payload carries.
ThmOwnerIsCreator ==
    \A u \in Users, p \in EventPayloads :
        LET r == CreateEventHandler(Store, u, p)
        IN  r.status = StatusCreated =>
                /\ r.events[r.lastEventID].UserID = u
                /\ r.body[2].UserID = u

\* an event has just been created and a payload naming another user as
\* UserID is accepted from here
WitOwnerIsCreator ==
    /\ resp = Answer(StatusCreated, "Event created successfully")
    /\ lastEventID \in DOMAIN events
    /\ \E u \in Users, p \in EventPayloads :
        /\ p.UserID \in Users \ {u}
        /\ CreateEventHandler(Store, u, p).status = StatusCreated

\* the event store moved only by an owner's UpdateEvent or
\* UpdateEventTicketCount on event e
OwnerCounterWrite(e) ==
    \E id \in IdParams :
        /\ ParseInt(id).val = e
        /\ \/ \E p \in EventPayloads :
                LET r == UpdateEventHandler(Store, events[e].UserID, id, p)
                IN  r.status = StatusOK /\ r.events = events'
           \/ \E p \in TicketPayloads :
                LET r == UpdateEventTicketCountHandler(Store, events[e].UserID, id, p)
                IN  r.status = StatusOK /\ r.events = events'

\* C13: in every state a Register or a CancelRegistration request, whether
\* answered with success or with an error, leaves the event store as it is,
\* and a step that changes a stored ticketsAvailable is an owner's successful
\* UpdateEvent or UpdateEventTicketCount.
ThmRegistrationFrame ==
    /\ [](\A u \in Users, id \in IdParams :
            LET r == registerForEventHandler(Store, u, id)
                c == cancelRegistrationHandler(Store, u, id)
            IN  /\ r.events = events /\ r.lastEventID = lastEventID
                /\ c.events = events /\ c.lastEventID = lastEventID)
    /\ [][events' # events =>
            \A e \in DOMAIN events \cap DOMAIN events' :
                events'[e].TicketsAvailable # events[e].TicketsAvailable =>
                    OwnerCounterWrite(e)]_vars

\* a registration has just succeeded on an event whose counter is 1 and
\* which now has two registered users
WitRegistrationFrame ==
    /\ resp = Answer(StatusCreated, "Registered for event successfully")
    /\ \E e \in DOMAIN events :
        /\ events[e].TicketsAvailable = 1
        /\ \A u \in Users : RegCount(regs, e, u) = 1

\* C14: a successful UpdateEventTicketCount by the owner sets the event's
\* counter to the requested n, whatever the rows of the ledger, answers n and
\* the event id, and changes no other field, no other event and no ledger row.
ThmTicketCountOverwrite ==
    \A u \in Users, id \in IdParams, p \in TicketPayloads :
        LET r == UpdateEventTicketCountHandler(Store, u, id, p)
            e == ParseInt(id).val
        IN  r.status = StatusOK =>
                /\ DOMAIN r.events = DOMAIN events
                /\ r.events[e] = [events[e] EXCEPT !.TicketsAvailable = p.TicketsAvailable]
                /\ \A o \in DOMAIN events \ {e} : r.events[o] = events[o]
                /\ r.regs = regs
                /\ r.lastEventID = lastEventID
                /\ r.body = <<p.TicketsAvailable, e>>
                /\ r.status =
                     UpdateEventTicketCountHandler(
                        [Store EXCEPT !.regs = EmptyBag], u, id, p).status

\* the counter of an event with two registered users has just been set to 1,
\* beside another stored event
WitTicketCountOverwrite ==
    /\ resp = Answer(StatusOK, "Ticket count updated successfully")
    /\ \E e \in DOMAIN events :
        /\ events[e].TicketsAvailable = 1
        /\ \A u \in Users : RegCount(regs, e, u) = 1
        /\ DOMAIN events # {e}

\* an event with ticketsAvailable = 10 and a user other than its owner
ScenarioNonOwner(u, id) ==
    /\ Found(id)
    /\ EventOf(id).UserID # u
    /\ EventOf(id).TicketsAvailable = 10

\* the ticket-count payload {"TicketsAvailable": -1}
MinusOne == [wf |-> TRUE, TicketsAvailable |-> 0 - 1]

\* C15 (amended): user A owns an event with ticketsAvailable = 10 and another
\* user C requests UpdateTicketCount(event, -1): the answer is Unauthorized
\* (401) and the counter stays 10.
ThmScenarioNonOwnerNegative ==
    \A u \in Users, id \in IdParams :
        ScenarioNonOwner(u, id) =>
            LET r == UpdateEventTicketCountHandler(Store, u, id, MinusOne)
            IN  /\ r.status = StatusUnauthorized
                /\ r.events = events
                /\ r.events[ParseInt(id).val].TicketsAvailable = 10

\* C15 (as claimed): in the same scenario the answer is the 400-class
\* rejection of a negative value and the counter stays 10.
CexScenarioNonOwnerNegative ==
    \A u \in Users, id \in IdParams :
        ScenarioNonOwner(u, id) =>
            LET r == UpdateEventTicketCountHandler(Store, u, id, MinusOne)
            IN  /\ r.status = StatusBadRequest
                /\ r.events = events

\* a non-owner's ticket-count request on an event with ticketsAvailable = 10
\* has just been answered 401
WitScenarioNonOwnerNegative ==
    /\ resp = Answer(StatusUnauthorized,
                     "You are not authorized to update ticket count for this event")
    /\ \E u \in Users, id \in IdParams :
        /\ ScenarioNonOwner(u, id)
        /\ Answered(UpdateEventTicketCountHandler(Store, u, id, MinusOne)) = resp

\* the gate's own answers
GateMessages == {"No authorization token provided", "Invalid/No authorization token"}

\* r is the gate's 401 and the event store and the ledger are as before
RejectedAtGate(r) ==
    /\ r.status = StatusUnauthorized
    /\ r.message \in GateMessages
    /\ r.events = events
    /\ r.lastEventID = lastEventID
    /\ r.regs = regs

\* C16: a request to a route of the authenticated group (create, update,
\* delete event, register, cancel registration, password update) with no
\* Authorization header or with a token that does not verify is answered 401
\* with the gate's message, and the event store, the ledger and the user
\* store are as before.
ThmGateRejects ==
    \A h \in BadHeaders :
        /\ Authenticate(h, clock).status = StatusUnauthorized
        /\ \A p \in GateEventPayloads :
            RejectedAtGate(authenticatedCreateEvent(Store, h, p, clock))
        /\ \A id \in IdParams :
            /\ \A p \in GateEventPayloads :
                RejectedAtGate(authenticatedUpdateEvent(Store, h, id, p, clock))
            /\ RejectedAtGate(authenticatedDeleteEvent(Store, h, id, clock))
            /\ RejectedAtGate(authenticatedRegisterForEvent(Store, h, id, clock))
            /\ RejectedAtGate(authenticatedCancelRegistration(Store, h, id, clock))
        /\ \A p \in PasswordPayloads :
            LET r == authenticatedUpdatePassword(UserStore, h, p, clock)
            IN  /\ r.status = StatusUnauthorized
                /\ r.message \in GateMessages
                /\ r.users = users
                /\ r.lastUserID = lastUserID

\* the gate has just rejected a token while an event, a registration and a
\* second user are stored
WitGateRejects ==
    /\ resp = Answer(StatusUnauthorized, "Invalid/No authorization token")
    /\ events # <<>>
    /\ regs # EmptyBag
    /\ lastUserID = 2

\* C17 (as claimed): for every Authorization header Authenticate either
\* passes the request on with a user id or aborts it with 401; a correctly
\* signed, unexpired token without a userId claim is among the aborted.
CexAuthenticateTotal ==
    \A h \in BadHeaders \cup GoodHeaders \cup ClaimlessHeaders :
        LET a == Authenticate(h, clock)
        IN  /\ ~a.panic
            /\ a.status \in {0, StatusUnauthorized}
            /\ h \in ClaimlessHeaders => a.status = StatusUnauthorized

\* C18 (as claimed): VerifyToken returns the user id GenerateToken was given,
\* with no error, as long as the token is unexpired, and the token of a
\* successful login resolves to the stored id of the user.
CexTokenRoundTrip ==
    /\ (verified.done /\ clock <= token.exp) =>
            (verified.err = "" /\ verified.userId = token.userId.val)
    /\ \A p \in LoginPayloads :
        LET r == loginHandler(UserStore, p, clock)
        IN  r.status = StatusOK =>
                \E i \in DOMAIN users :
                    /\ users[i].Email = p.Email
                    /\ VerifyToken(r.body[1], clock) =
                         [userId |-> ToInt64(i), err |-> "", panic |-> FALSE]

\* C19: no two stored users have the same email, and a signup with a stored
\* email is answered 500 "Could not save user", adds no row and leaves every
\* stored user (password hash and role included) as before.
ThmEmailUnique ==
    /\ \A i \in DOMAIN users, j \in DOMAIN users :
        users[i].Email = users[j].Email => i = j
    /\ \A p \in SignupPayloads :
        (BindUser(p) /\ \E i \in DOMAIN users : users[i].Email = p.Email) =>
            LET r == signupHandler(UserStore, p)
            IN  /\ r.status = StatusInternalServerError
                /\ r.message = "Could not save user"
                /\ r.users = users
                /\ r.lastUserID = lastUserID

\* a signup has just been answered "Could not save user" with two users stored
WitEmailUnique ==
    /\ resp = Answer(StatusInternalServerError, "Could not save user")
    /\ lastUserID = 2
    /\ users[2].Email = "a@x.io"

\* C20 (as claimed): every stored user has the role "admin" or "user", and a
\* signup that gives no role stores "user".
CexRoleAdminOrUser ==
    /\ \A i \in DOMAIN users : users[i].Role \in {"admin", "user"}
    /\ \A p \in SignupPayloads :
        LET r == signupHandler(UserStore, p)
        IN  (r.status = StatusCreated /\ p.Role = "") =>
                r.users[r.lastUserID].Role = "user"

\* C21: a password update by user U that is answered 200 carried a new
\* password of at least 6 characters; from then on a login with U's email
\* succeeds with the new password and with no other (the old one included,
\* when it differs), and every other stored user, and U's email and role, are
\* as before.  An update with a password shorter than 6 characters is
\* answered 400 and leaves the user store as it was.
ThmPasswordUpdate ==
    \A h \in GoodHeaders, p \in PasswordPayloads :
        LET U == Authenticate(h, clock).userId
            r == authenticatedUpdatePassword(UserStore, h, p, clock)
            after == [users |-> r.users, lastUserID |-> r.lastUserID]
        IN  /\ (p.wf /\ Len(p.NewPassword) < 6) =>
                    /\ r.status = StatusBadRequest
                    /\ r.users = users
            /\ r.status = StatusOK =>
                    /\ Len(p.NewPassword) >= 6
                    /\ DOMAIN r.users = DOMAIN users
                    /\ r.lastUserID = lastUserID
                    /\ \A lp \in LoginPayloads :
                        (BindUser(lp) /\ lp.Email = users[U].Email) =>
                            /\ loginHandler(after, lp, clock).status = StatusOK
                                  <=> lp.Password = p.NewPassword
                            /\ (CheckPasswordHash(lp.Password, users[U].Password)
                                    /\ lp.Password # p.NewPassword) =>
                                  loginHandler(after, lp, clock).status = StatusUnauthorized
                    /\ \A j \in DOMAIN users \ {U} : r.users[j] = users[j]
                    /\ r.users[U].Email = users[U].Email
                    /\ r.users[U].Role = users[U].Role

\* the admin's password has just been changed from "admin" to "secret2" while
\* a second user is stored: the old password no longer logs in, the new does
WitPasswordUpdate ==
    /\ resp = Answer(StatusOK, "Password updated successfully")
    /\ lastUserID = 2
    /\ users[1].Password = HashPassword("secret2")
    /\ LET old == [wf |-> TRUE, Email |-> "admin@email.com", Password |-> "admin", Role |-> ""]
           new == [old EXCEPT !.Password = "secret2"]
       IN  /\ loginHandler(UserStore, old, clock).status = StatusUnauthorized
           /\ loginHandler(UserStore, new, clock).status = StatusOK

\* a stored user has the email of login payload p, and p's password matches
\* that user's stored hash
EmailStored(p) == \E i \in DOMAIN users : users[i].Email = p.Email
CredentialsMatch(p) ==
    \E i \in DOMAIN users :
        /\ users[i].Email = p.Email
        /\ CheckPasswordHash(p.Password, users[i].Password)

\* C22: a login is answered 200 exactly when a stored user has the email and
\* the password matches its hash, and then carries a token for that user's
\* id; a login with a stored email and a wrong password and a login with an
\* unknown email get one and the same response (401, "Could not authenticate
\* user", no body); no login changes the user store.
ThmLoginUniform ==
    /\ \A p \in LoginPayloads :
        LET r == loginHandler(UserStore, p, clock)
        IN  /\ r.status = StatusOK <=> CredentialsMatch(p)
            /\ r.status = StatusOK =>
                    \E i \in DOMAIN users :
                        /\ users[i].Email = p.Email
                        /\ r.body = <<GenerateToken(ToInt64(i), p.Email, clock),
                                      users[i].Role, p.Email>>
            /\ r.users = users
            /\ r.lastUserID = lastUserID
    /\ \A p \in LoginPayloads, q \in LoginPayloads :
        (/\ BindUser(p) /\ EmailStored(p) /\ ~CredentialsMatch(p)
         /\ BindUser(q) /\ ~EmailStored(q)) =>
            /\ loginHandler(UserStore, p, clock) = loginHandler(UserStore, q, clock)
            /\ loginHandler(UserStore, p, clock) =
                 UserReply(UserStore, StatusUnauthorized, "Could not authenticate user")

\* a login has just been answered 401 in a state where one email is stored
\* with another password and another email is not stored at all
WitLoginUniform ==
    /\ resp = Answer(StatusUnauthorized, "Could not authenticate user")
    /\ \E p \in LoginPayloads, q \in LoginPayloads :
        /\ BindUser(p) /\ EmailStored(p) /\ ~CredentialsMatch(p)
        /\ BindUser(q) /\ ~EmailStored(q)
    /\ \E p \in LoginPayloads : CredentialsMatch(p)

\* C23 (as claimed): a CancelRegistration that is answered with success has
\* moved its (event, user) pair from present to absent, also when two cancel
\* requests for the pair interleave their COUNT(*) and DELETE statements: the
\* DELETE of a cancel that answers 200 finds a row and leaves none.
CexCancelMovesPair ==
    [][\A p \in Procs :
          (At(p, "write", "cancel") /\ proc'[p].pc = "idle"
              /\ proc'[p].status = StatusOK) =>
                /\ RegCount(regs, proc[p].id, proc[p].user) > 0
                /\ RegCount(regs', proc[p].id, proc[p].user) = 0]_vars

\* C24 (as claimed): an UpdateEvent or UpdateEventTicketCount that answers
\* 200 has applied its effect, also when a DeleteEvent of the same event
\* commits between the handler's fetch and its UPDATE statement: the event
\* the 200 is about is in the event store and carries the written count.
CexUpdateAppliesEffect ==
    [][\A p \in Procs :
          (/\ At(p, "write", "update") \/ At(p, "write", "tickets")
           /\ proc'[p].pc = "idle"
           /\ proc'[p].status = StatusOK) =>
                /\ proc[p].id \in DOMAIN events'
                /\ events'[proc[p].id].TicketsAvailable = proc[p].n]_vars

\* workers p and q both hold a pending UPDATE of UpdateEventTicketCount for
\* one event
BothUpdatingTickets(p, q) ==
    /\ p # q
    /\ At(p, "write", "tickets")
    /\ At(q, "write", "tickets")
    /\ proc[p].id = proc[q].id

\* C25: when two UpdateEventTicketCount requests of the owner for one event
\* are both past their checks, the event is stored, both values are valid,
\* and whichever UPDATE runs second leaves its own value in the counter; every
\* UPDATE of such a request answers 200 and leaves its own value, and nothing
\* else changed, in the stored event.
ThmLastWriterWins ==
    /\ [](\A p \in Procs, q \in Procs :
            BothUpdatingTickets(p, q) =>
                LET e == proc[p].id
                    w1 == UpdateEventTickets(events, e, proc[p].n)
                    w2 == UpdateEventTickets(w1.events, e, proc[q].n)
                IN  /\ e \in DOMAIN events
                    /\ proc[p].user = events[e].UserID
                    /\ proc[q].user = events[e].UserID
                    /\ ~w1.err /\ ~w2.err
                    /\ w1.events[e].TicketsAvailable = proc[p].n
                    /\ w2.events = [events EXCEPT ![e].TicketsAvailable = proc[q].n])
    /\ [][\A p \in Procs :
            (At(p, "write", "tickets") /\ proc'[p].pc = "idle") =>
                /\ proc'[p].status = StatusOK
                /\ proc[p].id \in DOMAIN events =>
                     events' = [events EXCEPT
                                  ![proc[p].id].TicketsAvailable = proc[p].n]]_vars

\* two ticket-count requests of the owner with different values are both
\* past their checks, one of them carrying a value other than the stored one
WitLastWriterWins ==
    \E p \in Procs, q \in Procs :
        /\ BothUpdatingTickets(p, q)
        /\ proc[p].n # proc[q].n
        /\ events[proc[p].id].TicketsAvailable # proc[q].n

\* The outward statuses of the failure classes in the current state.
\* NotFound: a request for an id with no stored event
StatusesNotFound ==
    UNION {{GetEventHandler(Store, id).status,
            registerForEventHandler(Store, u, id).status,
            cancelRegistrationHandler(Store, u, id).status,
            DeleteEventHandler(Store, u, id).status} :
           u \in Users, id \in {i \in IdParams : ParseInt(i).ok /\ ~Found(i)}}
\* StoreError: the store call of a handler returns an error of its own
StatusesStoreError ==
    {RegisterError("database is locked").status,
     CancelError("database is locked").status}
\* InvalidCapacity: a decodable payload of the owner with a negative count
StatusesInvalidCapacity ==
    {CreateEventHandler(Store, u, p).status :
        u \in Users, p \in {q \in EventPayloads : BindEvent([q EXCEPT !.TicketsAvailable = 1])
                                                  /\ q.TicketsAvailable < 0}} \cup
    UNION {{UpdateEventTicketCountHandler(Store, EventOf(id).UserID, id, p).status :
              p \in {q \in TicketPayloads : q.wf /\ q.TicketsAvailable < 0}} :
           id \in {i \in IdParams : Found(i)}}
\* ValidationError: a payload that does not decode or lacks a required field
StatusesValidationError ==
    {CreateEventHandler(Store, u, p).status :
        u \in Users, p \in {Malformed, MissingName}}
\* Unauthorized, AlreadyRegistered, NotRegistered
StatusesUnauthorized ==
    UNION {{DeleteEventHandler(Store, u, id).status :
              id \in {i \in IdParams : Found(i) /\ EventOf(i).UserID # u}} :
           u \in Users}
StatusesAlreadyRegistered ==
    {RegisterError(EventRegister(SetToBag({<<1, 1>>}), 1, 1).err).status}
StatusesNotRegistered ==
    {CancelError(EventCancelRegistration(EmptyBag, 1, 1).err).status}

FailureClassStatuses ==
    <<StatusesNotFound, StatusesUnauthorized, StatusesAlreadyRegistered,
      StatusesNotRegistered, StatusesInvalidCapacity, StatusesValidationError,
      StatusesStoreError>>

\* C26 (as claimed): no two failure classes of the taxonomy are reported
\* with the same status code; in particular NotFound differs from StoreError
\* and InvalidCapacity from ValidationError.
CexFailureStatusesDistinct ==
    \A i \in DOMAIN FailureClassStatuses, j \in DOMAIN FailureClassStatuses :
        i # j => FailureClassStatuses[i] \cap FailureClassStatuses[j] = {}

\* the ids of the events that were stored once and are deleted now
DeletedEvents == (1..lastEventID) \ DOMAIN events

\* C27: a DeleteEvent that answers 200 removes the event's row, leaves every
\* other event and the whole ledger as they were, and a Register or a
\* CancelRegistration for the id right after is answered 500 "Could not fetch
\* event", store untouched; the same holds for every deleted event in every
\* later state, and no step brings a deleted event back or changes the
\* ledger rows that carry its id.
ThmDeleteLeavesLedger ==
    /\ [](\A h \in GoodHeaders, id \in IdParams :
            LET r == authenticatedDeleteEvent(Store, h, id, clock)
                after == [events |-> r.events, lastEventID |-> r.lastEventID,
                          regs |-> r.regs]
            IN  r.status = StatusOK =>
                    /\ r.regs = regs
                    /\ r.lastEventID = lastEventID
                    /\ r.events = [e \in DOMAIN events \ {ParseInt(id).val} |-> events[e]]
                    /\ \A g \in GoodHeaders :
                        /\ authenticatedRegisterForEvent(after, g, id, clock) =
                             Reply(after, StatusInternalServerError, "Could not fetch event")
                        /\ authenticatedCancelRegistration(after, g, id, clock) =
                             Reply(after, StatusInternalServerError, "Could not fetch event"))
    /\ [](\A e \in DeletedEvents, g \in GoodHeaders :
            /\ authenticatedRegisterForEvent(Store, g, Digits[e], clock) =
                 Reply(Store, StatusInternalServerError, "Could not fetch event")
            /\ authenticatedCancelRegistration(Store, g, Digits[e], clock) =
                 Reply(Store, StatusInternalServerError, "Could not fetch event"))
    /\ [][\A e \in DeletedEvents :
            /\ e \notin DOMAIN events'
            /\ \A u \in Users : RegCount(regs', e, u) = RegCount(regs, e, u)]_vars

\* a request for a deleted event has just been answered "Could not fetch
\* event" while the ledger still holds a row with the event's id
WitDeleteLeavesLedger ==
    /\ resp = Answer(StatusInternalServerError, "Could not fetch event")
    /\ \E e \in DeletedEvents, u \in Users : RegCount(regs, e, u) > 0

\* C28: no step changes the owner of a stored event: an event that is in the
\* store before and after a request (CreateEvent, UpdateEvent with any
\* payload UserID, UpdateEventTicketCount, DeleteEvent of another event,
\* Register, CancelRegistration) has the same UserID after it.
ThmOwnerNeverChanges ==
    [][events' # events =>
          \A e \in DOMAIN events \cap DOMAIN events' :
              events'[e].UserID = events[e].UserID]_vars

\* an UpdateEvent has just been answered 200, and from here the owner's
\* update with a payload that names the other user is accepted and leaves the
\* owner as it is
WitOwnerNeverChanges ==
    /\ resp = Answer(StatusOK, "Event updated successfully")
    /\ \E u \in Users, id \in IdParams, p \in EventPayloads :
        /\ Found(id)
        /\ EventOf(id).UserID = u
        /\ p.UserID \in Users \ {u}
        /\ LET r == UpdateEventHandler(Store, u, id, p)
           IN  /\ r.status = StatusOK
               /\ r.events[ParseInt(id).val].UserID = u

\* ledgers rs and rs2 hold the same rows for every pair other than <<e, u>>
SameOtherRows(rs, rs2, e, u) ==
    /\ DOMAIN rs2 \ {<<e, u>>} = DOMAIN rs \ {<<e, u>>}
    /\ \A x \in DOMAIN rs \ {<<e, u>>} : rs2[x] = rs[x]

\* the ledger with every row twice, as two interleaved Register requests per
\* pair leave it
Doubled == [Store EXCEPT !.regs = regs (+) regs]

\* C29: a Register or a CancelRegistration request for event E and user U
\* leaves the rows of every other (event, user) pair as they were; a Register
\* that answers 201 adds one row for the pair and any other answer changes
\* nothing; a CancelRegistration that answers 200 leaves no row for the pair,
\* also when the ledger held the pair twice, and any other answer changes
\* nothing.
ThmLedgerFrame ==
    \A u \in Users, id \in IdParams :
        LET e == ParseInt(id).val
            r == registerForEventHandler(Store, u, id)
            c == cancelRegistrationHandler(Store, u, id)
            cd == cancelRegistrationHandler(Doubled, u, id)
        IN  /\ SameOtherRows(regs, r.regs, e, u)
            /\ SameOtherRows(regs, c.regs, e, u)
            /\ SameOtherRows(Doubled.regs, cd.regs, e, u)
            /\ IF r.status = StatusCreated
               THEN RegCount(r.regs, e, u) = RegCount(regs, e, u) + 1
               ELSE r.regs = regs
            /\ IF c.status = StatusOK
               THEN RegCount(regs, e, u) > 0 /\ <<e, u>> \notin DOMAIN c.regs
               ELSE c.regs = regs
            /\ IF cd.status = StatusOK
               THEN RegCount(Doubled.regs, e, u) = 2 /\ <<e, u>> \notin DOMAIN cd.regs
               ELSE cd.regs = Doubled.regs

\* a cancel has just succeeded for a pair while the other user is registered
\* for the same event and a row for another event is in the ledger
WitLedgerFrame ==
    /\ resp = Answer(StatusOK, "Cancelled successfully")
    /\ \E e \in DOMAIN events, u \in Users :
        /\ RegCount(regs, e, u) = 0
        /\ \E v \in Users \ {u} : RegCount(regs, e, v) = 1
        /\ \E o \in DOMAIN events \ {e}, v \in Users : RegCount(regs, o, v) = 1

\* C30: every id in use (of a stored event, or carried by a ledger row) is at
\* most the AUTOINCREMENT counter, the counter never goes down, and an event
\* that a step adds to the store gets the id one above the counter: an id no
\* stored or deleted event ever had, for which the ledger holds no row.
ThmEventIdsFresh ==
    /\ [](/\ DOMAIN events \subseteq 1..lastEventID
          /\ \A x \in DOMAIN regs : x[1] \in 1..lastEventID)
    /\ [][(events' # events \/ lastEventID' # lastEventID) =>
            /\ lastEventID' >= lastEventID
            /\ \A e \in DOMAIN events' \ DOMAIN events :
                /\ e = lastEventID + 1
                /\ lastEventID' = e
                /\ \A u \in Users : RegCount(regs', e, u) = 0]_vars

\* an event has just been created after another was deleted: its id is new
\* and it has no ledger row, while a row of the deleted event is still there
WitEventIdsFresh ==
    /\ resp = Answer(StatusCreated, "Event created successfully")
    /\ lastEventID \in DOMAIN events
    /\ \A u \in Users : RegCount(regs, lastEventID, u) = 0
    /\ \E e \in DeletedEvents, u \in Users : e < lastEventID /\ RegCount(regs, e, u) > 0

====
